---- MODULE Spec2Model ----
(***************************************************************************)
(* Model of contact_manager.py: the Contact value object (validation,      *)
(* to_line / from_line) and the ContactManager file store (get_all,        *)
(* add, delete, find).                                                     *)
(*                                                                         *)
(* A Python str is a sequence of one-character strings.  The backing file  *)
(* is its byte content (a sequence of characters) plus whether it exists.  *)
(* An exception is the name of what was raised ("" when nothing was).      *)
(* An Optional[Contact] is a sequence of length 0 (None) or 1.             *)
(***************************************************************************)
EXTENDS Integers, Sequences, FiniteSets

VARIABLES exists, content, op, probe

vars == <<exists, content, op, probe>>

(***************************************************************************)
(* Bounds of the model.                                                    *)
(***************************************************************************)
\* longest raw name handed to Contact(...) in ContactSpec
MaxNameLen == 3
\* longest raw phone handed to Contact(...) in ContactSpec
MaxPhoneLen == 2
\* longest line handed to Contact.from_line in ContactSpec
MaxLineLen == 5
\* lines of a backing file that exists before the manager first runs
MaxInitLines == 1
\* add_contact is not called once the file holds this many lines
MaxLines == 4

(***************************************************************************)
(* Characters and str methods.                                             *)
(***************************************************************************)
\* characters str.strip() removes (space, tab, line feed stand for all of them)
Whitespace == {" ", "\t", "\n"}

\* the separator literal " | " of to_line and from_line
SEP == <<" ", "|", " ">>

\* set("0123456789-+ ()") of Contact._validate
allowed == {"0", "1", "2", "3", "4", "5", "6", "7", "8", "9", "-", "+", " ", "(", ")"}

RECURSIVE lstrip(_)
lstrip(s) ==
    IF s = <<>> THEN <<>>
    ELSE IF Head(s) \in Whitespace THEN lstrip(Tail(s)) ELSE s

RECURSIVE rstrip(_)
rstrip(s) ==
    IF s = <<>> THEN <<>>
    ELSE IF s[Len(s)] \in Whitespace THEN rstrip(SubSeq(s, 1, Len(s) - 1)) ELSE s

\* str.strip()
strip(s) == rstrip(lstrip(s))

\* the positions at which sub occurs in s
occurrences(s, sub) ==
    {i \in 1..(Len(s) - Len(sub) + 1) : SubSeq(s, i, i + Len(sub) - 1) = sub}

\* sub in s
contains(s, sub) == occurrences(s, sub) # {}

\* s.split(" | ", 1): one part when the separator is absent, else the text
\* before and after its first occurrence
split1(s) ==
    IF occurrences(s, SEP) = {} THEN <<s>>
    ELSE LET k == CHOOSE i \in occurrences(s, SEP) :
                      \A j \in occurrences(s, SEP) : i <= j
         IN  <<SubSeq(s, 1, k - 1), SubSeq(s, k + Len(SEP), Len(s))>>

\* str.lower() on one character (the letters of the model)
lowerChar(ch) ==
    CASE ch = "A" -> "a"
      [] ch = "B" -> "b"
      [] OTHER -> ch

\* str.lower()
lower(s) == [i \in 1..Len(s) |-> lowerChar(s[i])]

(***************************************************************************)
(* Contact                                                                 *)
(***************************************************************************)
\* _validate without its test of the phone's characters (lines 23-27 left out)
validate_anyphone(name, phone) ==
    IF name = <<>> THEN "name empty"
    ELSE IF phone = <<>> THEN "phone empty"
    ELSE ""

\* Contact._validate on the stripped fields: "" when it returns, else what
\* the ValueError says
validate(name, phone) ==
    IF name = <<>> THEN "name empty"
    ELSE IF phone = <<>> THEN "phone empty"
    ELSE IF \E i \in 1..Len(phone) : phone[i] \notin allowed THEN "phone format"
    ELSE ""

\* Contact.__init__: the fields after stripping, and what _validate raised
Contact(name, phone) ==
    [name   |-> strip(name),
     phone  |-> strip(phone),
     raised |-> validate(strip(name), strip(phone))]

\* the fields of a Contact that exists
fields(c) == [name |-> c.name, phone |-> c.phone]

\* to_line writing "| " for the separator
to_line_nospace(c) == c.name \o <<"|", " ">> \o c.phone \o <<"\n">>

\* Contact.to_line
to_line(c) == c.name \o SEP \o c.phone \o <<"\n">>

\* Contact.from_line: the Optional[Contact] returned, or the ValueError of
\* the two-name unpacking at line 39, which is outside the try
from_line(line) ==
    IF ~contains(line, SEP) THEN [raised |-> "", out |-> <<>>]
    ELSE LET parts == split1(strip(line))
         IN  IF Len(parts) # 2
             THEN [raised |-> "unpack", out |-> <<>>]
             ELSE LET c == Contact(parts[1], parts[2])
                  IN  IF c.raised = ""
                      THEN [raised |-> "", out |-> <<fields(c)>>]
                      ELSE [raised |-> "", out |-> <<>>]

(***************************************************************************)
(* ContactManager                                                          *)
(***************************************************************************)
\* iterating a text file: the lines, each with its line feed, the last one
\* without when the file does not end in one
RECURSIVE readlines(_)
readlines(text) ==
    IF text = <<>> THEN <<>>
    ELSE LET nl == {i \in 1..Len(text) : text[i] = "\n"}
         IN  IF nl = {} THEN <<text>>
             ELSE LET k == CHOOSE i \in nl : \A j \in nl : i <= j
                  IN  <<SubSeq(text, 1, k)>> \o readlines(SubSeq(text, k + 1, Len(text)))

\* the loop of get_all_contacts over the lines read
RECURSIVE load(_)
load(lines) ==
    IF lines = <<>> THEN [raised |-> "", contacts |-> <<>>]
    ELSE LET first == from_line(Head(lines))
             rest  == load(Tail(lines))
         IN  IF first.raised # "" THEN [raised |-> first.raised, contacts |-> <<>>]
             ELSE IF rest.raised # "" THEN rest
             ELSE [raised |-> "", contacts |-> first.out \o rest.contacts]

\* get_all_contacts without its os.path.exists test: open() raises
get_all_contacts_nocheck(present, text) ==
    IF ~present THEN [raised |-> "FileNotFoundError", contacts |-> <<>>]
    ELSE load(readlines(text))

\* ContactManager.get_all_contacts
get_all_contacts(present, text) ==
    IF ~present THEN [raised |-> "", contacts |-> <<>>]
    ELSE load(readlines(text))

\* the duplicate test without .lower()
has_duplicate_cased(contacts, contact) ==
    \E i \in 1..Len(contacts) : contacts[i].name = contact.name

\* the duplicate test of add_contact
has_duplicate(contacts, contact) ==
    \E i \in 1..Len(contacts) : lower(contacts[i].name) = lower(contact.name)

\* ContactManager.add_contact: what it raised and the file it leaves
add_contact(present, text, contact) ==
    LET all == get_all_contacts(present, text)
    IN  IF all.raised # ""
        THEN [raised |-> all.raised, exists |-> present, content |-> text]
        ELSE IF has_duplicate(all.contacts, contact)
        THEN [raised |-> "duplicate", exists |-> present, content |-> text]
        ELSE [raised |-> "", exists |-> TRUE, content |-> text \o to_line(contact)]

\* the list comprehension of delete_contact
RECURSIVE keep_others(_, _)
keep_others(contacts, name) ==
    IF contacts = <<>> THEN <<>>
    ELSE (IF lower(Head(contacts).name) # lower(name) THEN <<Head(contacts)>> ELSE <<>>)
         \o keep_others(Tail(contacts), name)

\* the write loop of delete_contact
RECURSIVE write_all(_)
write_all(contacts) ==
    IF contacts = <<>> THEN <<>>
    ELSE to_line(Head(contacts)) \o write_all(Tail(contacts))

\* delete_contact without its early return: the file is always rewritten
delete_contact_rewrite(present, text, name) ==
    LET all     == get_all_contacts(present, text)
        updated == keep_others(all.contacts, name)
    IN  IF all.raised # ""
        THEN [raised |-> all.raised, ret |-> FALSE, exists |-> present, content |-> text]
        ELSE [raised |-> "", ret |-> Len(updated) # Len(all.contacts),
              exists |-> TRUE, content |-> write_all(updated)]

\* ContactManager.delete_contact: what it raised, the bool returned and the
\* file it leaves
delete_contact(present, text, name) ==
    LET all     == get_all_contacts(present, text)
        updated == keep_others(all.contacts, name)
    IN  IF all.raised # ""
        THEN [raised |-> all.raised, ret |-> FALSE, exists |-> present, content |-> text]
        ELSE IF Len(updated) = Len(all.contacts)
        THEN [raised |-> "", ret |-> FALSE, exists |-> present, content |-> text]
        ELSE [raised |-> "", ret |-> TRUE, exists |-> TRUE, content |-> write_all(updated)]

\* ContactManager.find_contact: what it raised and the Optional[Contact]
find_contact(present, text, name) ==
    LET all  == get_all_contacts(present, text)
        hits == {i \in 1..Len(all.contacts) : lower(all.contacts[i].name) = lower(name)}
    IN  IF all.raised # "" THEN [raised |-> all.raised, ret |-> <<>>]
        ELSE IF hits = {} THEN [raised |-> "", ret |-> <<>>]
        ELSE [raised |-> "",
              ret |-> <<all.contacts[CHOOSE i \in hits : \A j \in hits : i <= j]>>]

(***************************************************************************)
(* The store: one manager driven sequentially by its caller.               *)
(***************************************************************************)
\* raw names the caller types for a new contact (main, line 128)
AddNames ==
    {<<"a">>, <<"A">>, <<"b">>, <<"b", "\n", "a">>}

\* raw phones the caller types for a new contact (main, line 129)
AddPhones == {<<"5">>}

\* the Contact objects the caller can hand to add_contact (main, line 130)
Contacts ==
    {fields(Contact(n, p)) : n \in {x \in AddNames : Contact(x, <<"5">>).raised = ""},
                             p \in {y \in AddPhones : Contact(<<"a">>, y).raised = ""}}

\* names the caller asks find_contact and delete_contact for
NameArgs == AddNames

\* lines a backing file may hold before the manager first runs:
\* records, a bad phone, no separator, a blank line, an empty phone, and a
\* name followed by a tab
SampleLines ==
    {<<"a", " ", "|", " ", "5", "\n">>,
     <<"B", " ", "|", " ", "7", "\n">>,
     <<"b", " ", "|", " ", "a", "\n">>,
     <<"a", "b", "\n">>,
     <<"\n">>,
     <<"b", " ", "|", " ", "\n">>,
     <<"a", " ", "|", "\t", " ", "|", " ", "5", "\n">>}

\* files of at most n whole sample lines
RECURSIVE WholeFiles(_)
WholeFiles(n) ==
    IF n = 0 THEN {<<>>}
    ELSE WholeFiles(n - 1) \cup {f \o l : f \in WholeFiles(n - 1), l \in SampleLines}

\* the same files, and each without the line feed that ends it
InitFiles ==
    WholeFiles(MaxInitLines)
        \cup {SubSeq(f, 1, Len(f) - 1) : f \in WholeFiles(MaxInitLines) \ {<<>>}}

\* no operation has run
NoOp ==
    [kind |-> "none", name |-> <<>>, phone |-> <<>>, raised |-> "",
     contacts |-> <<>>, found |-> <<>>, deleted |-> FALSE]

\* no Contact call has run
NoProbe ==
    [kind |-> "none", name |-> <<>>, phone |-> <<>>, line |-> <<>>,
     raised |-> "", out |-> <<>>]

\* ContactManager.__init__ creates directories only: the file is absent, or
\* is whatever was left there
Init ==
    /\ exists \in BOOLEAN
    /\ content \in (IF exists THEN InitFiles ELSE {<<>>})
    /\ op = NoOp
    /\ probe = NoProbe

\* a first run: the file is absent or empty
InitFresh ==
    /\ exists \in BOOLEAN
    /\ content = <<>>
    /\ op = NoOp
    /\ probe = NoProbe

AddOp(c) ==
    /\ Len(readlines(content)) < MaxLines
    /\ LET r == add_contact(exists, content, c)
       IN  /\ exists' = r.exists
           /\ content' = r.content
           /\ op' = [NoOp EXCEPT !.kind = "add", !.name = c.name, !.phone = c.phone,
                                 !.raised = r.raised]
    /\ UNCHANGED probe

ListOp ==
    /\ LET r == get_all_contacts(exists, content)
       IN  op' = [NoOp EXCEPT !.kind = "list", !.raised = r.raised,
                              !.contacts = r.contacts]
    /\ UNCHANGED <<exists, content, probe>>

FindOp(n) ==
    /\ LET r == find_contact(exists, content, n)
       IN  op' = [NoOp EXCEPT !.kind = "find", !.name = n, !.raised = r.raised,
                              !.found = r.ret]
    /\ UNCHANGED <<exists, content, probe>>

DeleteOp(n) ==
    /\ LET r == delete_contact(exists, content, n)
       IN  /\ exists' = r.exists
           /\ content' = r.content
           /\ op' = [NoOp EXCEPT !.kind = "delete", !.name = n, !.raised = r.raised,
                                 !.deleted = r.ret]
    /\ UNCHANGED probe

Next ==
    \/ \E c \in Contacts : AddOp(c)
    \/ ListOp
    \/ \E n \in NameArgs : FindOp(n)
    \/ \E n \in NameArgs : DeleteOp(n)

Spec == Init /\ [][Next]_vars

SpecFresh == InitFresh /\ [][Next]_vars

(***************************************************************************)
(* The Contact class on its own: every raw name, phone and line over a     *)
(* small alphabet is handed to the constructor, to to_line and from_line.  *)
(***************************************************************************)
\* a letter, a digit, the space, the bar of the separator, and a phone
\* character other than a digit or "-"
Alphabet == {"a", "5", " ", "|", "+"}

\* the strings of length at most n
Strs(n) == UNION {[1..k -> Alphabet] : k \in 0..n}

\* Contact(name, phone) on the raw arguments drawn
ConstructStep ==
    /\ probe.kind = "args"
    /\ LET c == Contact(probe.name, probe.phone)
       IN  probe' = [probe EXCEPT !.kind = "construct", !.raised = c.raised,
                                  !.out = IF c.raised = "" THEN <<fields(c)>> ELSE <<>>]
    /\ UNCHANGED <<exists, content, op>>

\* Contact.from_line(contact.to_line()) on the Contact constructed
RoundTripStep ==
    /\ probe.kind = "construct"
    /\ probe.raised = ""
    /\ LET line == to_line(probe.out[1])
           r    == from_line(line)
       IN  probe' = [probe EXCEPT !.kind = "roundtrip", !.line = line,
                                  !.raised = r.raised, !.out = r.out]
    /\ UNCHANGED <<exists, content, op>>

\* Contact.from_line(line) on the line drawn
ParseStep ==
    /\ probe.kind = "text"
    /\ LET r == from_line(probe.line)
       IN  probe' = [probe EXCEPT !.kind = "parse", !.raised = r.raised, !.out = r.out]
    /\ UNCHANGED <<exists, content, op>>

\* the caller's arguments: a raw name and phone, or a line of text
InitContact ==
    /\ exists = FALSE
    /\ content = <<>>
    /\ op = NoOp
    /\ probe \in
         {[NoProbe EXCEPT !.kind = "args", !.name = n, !.phone = p] :
              n \in Strs(MaxNameLen), p \in Strs(MaxPhoneLen)}
         \cup {[NoProbe EXCEPT !.kind = "text", !.line = l] : l \in Strs(MaxLineLen)}

NextContact ==
    \/ ConstructStep
    \/ RoundTripStep
    \/ ParseStep

ContactSpec == InitContact /\ [][NextContact]_vars

(***************************************************************************)
(* Properties                                                              *)
(***************************************************************************)
\* what List() returns on the file as it is now, and as it is after the step
Before == get_all_contacts(exists, content)
After == get_all_contacts(exists', content')

\* name n matches some Contact of cs, letter case ignored
Matches(cs, n) == \E i \in 1..Len(cs) : lower(cs[i].name) = lower(n)

\* cs without the Contacts that name n matches, order kept
Without(cs, n) ==
    LET other(c) == lower(c.name) # lower(n)
    IN  SelectSeq(cs, other)

\* s ends with the text e
EndsWith(s, e) == Len(s) >= Len(e) /\ SubSeq(s, Len(s) - Len(e) + 1, Len(s)) = e

\* every character of s is a decimal digit or "-"
DigitsAndHyphen(s) ==
    \A i \in 1..Len(s) : s[i] \in {"0", "1", "2", "3", "4", "5", "6", "7", "8", "9", "-"}

\* C1: starting from an absent or empty file, the sequence List() returns
\* never holds two Contacts whose names are equal once lower-cased.
C1_ListHasNoDuplicateNames ==
    (op.kind = "list" /\ op.raised = "") =>
        \A i, j \in 1..Len(op.contacts) :
            i # j => lower(op.contacts[i].name) # lower(op.contacts[j].name)

\* C2: after a successful Add(c), the Find(n) that follows at once, for n
\* equal to c.name up to letter case, returns a Contact with c's name and
\* phone.
C2_AddThenFind ==
    [][(/\ op.kind = "add"
        /\ op.raised = ""
        /\ op'.kind = "find"
        /\ lower(op'.name) = lower(op.name))
       => (/\ op'.raised = ""
           /\ op'.found = <<[name |-> op.name, phone |-> op.phone]>>)]_vars

\* C3: when List() already holds a record whose name matches the new
\* contact's, letter case ignored, Add raises the duplicate-name ValueError
\* and the file and List() are what they were.
C3_DuplicateAddRejected ==
    [][(/\ op'.kind = "add"
        /\ Before.raised = ""
        /\ Matches(Before.contacts, op'.name))
       => (/\ op'.raised = "duplicate"
           /\ exists' = exists
           /\ content' = content
           /\ After = Before)]_vars

\* C3 happens: an Add was refused for a name stored in another letter case
C3_Witness ==
    /\ op.kind = "add"
    /\ op.raised = "duplicate"
    /\ \E i \in 1..Len(get_all_contacts(exists, content).contacts) :
           LET c == get_all_contacts(exists, content).contacts[i]
           IN  c.name # op.name /\ lower(c.name) = lower(op.name)

\* C4: when n matches a record of List(), Delete(n) returns true and the
\* next List() is the previous one without the records n matches: the other
\* records keep their name, phone and order.
C4_DeleteRemovesExactlyTheMatches ==
    [][(/\ op'.kind = "delete"
        /\ Before.raised = ""
        /\ Matches(Before.contacts, op'.name))
       => (/\ op'.raised = ""
           /\ op'.deleted
           /\ After.raised = ""
           /\ After.contacts = Without(Before.contacts, op'.name))]_vars

C7_ParseNeverFails ==
    probe.kind = "parse" =>
        /\ probe.raised = ""
        /\ ~contains(probe.line, SEP) => probe.out = <<>>
        /\ \A i \in 1..Len(probe.out) : Contact(probe.out[i].name, probe.out[i].phone).raised = ""

\* C8: a successful Add leaves the file's lines as they were, each at its
\* place, followed by exactly one new line, the contact's serialized form.
C8_AddAppendsOneLine ==
    [][(op'.kind = "add" /\ op'.raised = "")
       => readlines(content')
              = readlines(content) \o <<to_line([name |-> op'.name, phone |-> op'.phone])>>]_vars

\* C9: Construct fails whenever the trimmed phone holds a character other
\* than a decimal digit or "-", so every Contact has a non-empty trimmed name
\* and a non-empty trimmed phone of digits and "-" only.
C9_PhoneOfDigitsAndHyphenOnly ==
    /\ (probe.kind = "construct" /\ ~DigitsAndHyphen(strip(probe.phone)))
           => probe.raised # ""
    /\ \A i \in 1..Len(probe.out) : DigitsAndHyphen(probe.out[i].phone)

\* C9 as amended: Construct fails whenever the trimmed phone holds a
\* character other than a decimal digit, "-", "+", "(", ")" or a space, so
\* every Contact, constructed or parsed, has a non-empty trimmed name and a
\* non-empty trimmed phone of those characters only.
C9_PhoneOfAllowedCharactersOnly ==
    /\ (probe.kind = "construct"
        /\ \E i \in 1..Len(strip(probe.phone)) :
               strip(probe.phone)[i]
                   \notin {"0", "1", "2", "3", "4", "5", "6", "7", "8", "9",
                           "-", "+", "(", ")", " "})
           => probe.raised # ""
    /\ \A i \in 1..Len(probe.out) :
           LET c == probe.out[i]
           IN  /\ c.name # <<>>
               /\ strip(c.name) = c.name
               /\ c.phone # <<>>
               /\ strip(c.phone) = c.phone
               /\ \A k \in 1..Len(c.phone) :
                      c.phone[k] \in {"0", "1", "2", "3", "4", "5", "6", "7", "8", "9",
                                      "-", "+", "(", ")", " "}

\* C9 happens: a line was parsed into a Contact whose phone holds a "+"
C9_Witness ==
    /\ probe.kind = "parse"
    /\ probe.out # <<>>
    /\ \E k \in 1..Len(probe.out[1].phone) : probe.out[1].phone[k] = "+"

\* C10: while the file is absent, List() and Find() return the empty
\* sequence and none without error and leave it absent; only a successful
\* Add creates the file.
C10_ReadingAnAbsentFile ==
    [][/\ (~exists /\ op'.kind \in {"list", "find"})
           => (/\ op'.raised = ""
               /\ op'.contacts = <<>>
               /\ op'.found = <<>>
               /\ ~exists')
       /\ (~exists /\ exists') => (op'.kind = "add" /\ op'.raised = "")]_vars

\* C10 happens: List() has just returned on an absent file
C10_Witness ==
    /\ ~exists
    /\ op.kind = "list"
    /\ op.contacts = <<>>

====
